---- MODULE Spec2Model ----
(***************************************************************************)
(* Model of the spellcheck Dictionary of stringmetrics                     *)
(* (src/spellcheck/dictionary.rs).                                         *)
(*                                                                         *)
(* A Rust String is modelled as a sequence of one-character strings, so    *)
(* that split('/'), starts_with, trim_start_matches, contains and lines()  *)
(* are computed character by character, as the code computes them.         *)
(* A HashSet<String> is a set of such sequences, a Vec<String> a sequence  *)
(* of them.                                                                *)
(***************************************************************************)
EXTENDS Integers, Sequences, FiniteSets, TLC

\* The fields of the Dictionary struct, and three history variables:
\*   ret        what the last call returned;
\*   lifecycle  "fresh" after new(), "raw" after a loader of a dictionary that
\*              was never compiled, "compiled" after a successful compile(),
\*              "stale" after a loader of a dictionary that was compiled;
\*   in_a_row   the number of successful compile() calls since the last call
\*              that changed the dictionary or its affix configuration,
\*              counted up to 2.
VARIABLES affix, wordlist, wordlist_nosuggest, wordlist_forbidden,
          raw_wordlist, raw_wordlist_personal, compiled,
          ret, lifecycle, in_a_row

vars == <<affix, wordlist, wordlist_nosuggest, wordlist_forbidden,
          raw_wordlist, raw_wordlist_personal, compiled,
          ret, lifecycle, in_a_row>>

\* The fields of the Dictionary struct that hold compiled words.
sets == <<wordlist, wordlist_nosuggest, wordlist_forbidden>>

\* Largest number of data lines in a loaded wordlist or personal dictionary.
MaxLines == 2

-----------------------------------------------------------------------------
(* str primitives of the Rust standard library used by dictionary.rs *)

\* Position of the first occurrence of character c in s, 0 when absent.
IndexOf(s, c) ==
    IF \E i \in 1..Len(s) : s[i] = c
    THEN CHOOSE i \in 1..Len(s) : s[i] = c /\ \A j \in 1..(i - 1) : s[j] # c
    ELSE 0

\* str::split(c).collect::<Vec<&str>>(): always at least one piece.
RECURSIVE split(_, _)
split(s, c) ==
    LET i == IndexOf(s, c)
    IN IF i = 0 THEN <<s>>
       ELSE <<SubSeq(s, 1, i - 1)>> \o split(SubSeq(s, i + 1, Len(s)), c)

\* A line of str::lines() loses one trailing carriage return.
strip_cr(l) ==
    IF Len(l) > 0 /\ l[Len(l)] = "\r" THEN SubSeq(l, 1, Len(l) - 1) ELSE l

\* str::lines(): pieces between line feeds; a final empty piece is not a line.
lines(s) ==
    LET parts == split(s, "\n")
        kept == IF parts[Len(parts)] = <<>>
                THEN SubSeq(parts, 1, Len(parts) - 1) ELSE parts
    IN [i \in 1..Len(kept) |-> strip_cr(kept[i])]

\* str::starts_with(p)
starts_with(s, p) == Len(p) <= Len(s) /\ SubSeq(s, 1, Len(p)) = p

\* str::trim_start_matches(c): drops every leading c.
RECURSIVE trim_start_matches(_, _)
trim_start_matches(s, c) ==
    IF Len(s) > 0 /\ s[1] = c THEN trim_start_matches(Tail(s), c) ELSE s

\* str::contains(pat) for a string pattern: pat occurs as a substring.
contains(s, pat) ==
    \E i \in 0..(Len(s) - Len(pat)) : SubSeq(s, i + 1, i + Len(pat)) = pat

\* Vec::get(1) of a split: the second piece when there is one.
has_second(sp) == Len(sp) >= 2

\* Concatenation of a sequence of sequences.
RECURSIVE flatten(_)
flatten(ss) == IF ss = <<>> THEN <<>> ELSE Head(ss) \o flatten(Tail(ss))

\* The elements of a sequence.
Range(s) == {s[i] : i \in 1..Len(s)}

-----------------------------------------------------------------------------
(* The Affix configuration (crate::spellcheck::affix::Affix).  Its source  *)
(* is not part of the files at hand: it is modelled from the expansion     *)
(* contract of the specification and from tests/affix_integration.rs.      *)

\* An affix document is a sequence of directive lines.  A directive is a
\* record: dir is "PFX", "SFX", "NOSUGGEST" or anything else (malformed),
\* flag the flag token, add the text the rule adds.
PfxA == [dir |-> "PFX", flag |-> "A", add |-> <<"r", "e">>]
SfxN == [dir |-> "SFX", flag |-> "N", add |-> <<"e", "n">>]
NoSuggestBang == [dir |-> "NOSUGGEST", flag |-> "!", add |-> <<>>]
Malformed == [dir |-> "???", flag |-> "?", add |-> <<>>]

\* tests/files/short.aff as the integration test uses it: prefix flag A
\* adds "re", suffix flag N adds "en".
ShortAff == <<NoSuggestBang, PfxA, SfxN>>
\* A document whose second directive does not parse.
BadAff == <<SfxN, Malformed>>
AffixDocs == {ShortAff, BadAff}

\* Affix::new(): no rules; the nosuggest flag token is "!".
AffixNew == [affix_rules |-> <<>>, nosuggest_flag |-> <<"!">>]

is_rule(d) == d.dir \in {"PFX", "SFX"}
well_formed(d) == d.dir \in {"PFX", "SFX", "NOSUGGEST"}

\* Affix::load_from_str: atomic. A document with a malformed directive
\* fails the load and leaves the configuration as it was; otherwise the
\* document's rules replace the configuration.
affix_load_ok(doc) == \A i \in 1..Len(doc) : well_formed(doc[i])

affix_load_from_str(a, doc) ==
    IF ~affix_load_ok(doc) THEN a
    ELSE LET ns == SelectSeq(doc, LAMBDA d : d.dir = "NOSUGGEST")
         IN [affix_rules |-> SelectSeq(doc, is_rule),
             nosuggest_flag |-> IF ns = <<>> THEN a.nosuggest_flag
                                ELSE <<ns[Len(ns)].flag>>]

\* One rule applied to a root: a prefix rule prepends, a suffix rule appends.
apply_rule(r, root) == IF r.dir = "PFX" THEN r.add \o root ELSE root \o r.add

\* The rules a flagstring selects: in the order of the flags in the
\* flagstring, and within a flag in the order the rules were registered.
\* A flag token without rules selects nothing.
selected_rules(a, flags) ==
    flatten([i \in 1..Len(flags) |->
                SelectSeq(a.affix_rules, LAMBDA r : r.flag = flags[i])])

\* An expansion that lists the compounded spellings before the single ones.
create_affixed_words_compound_first(a, root, flags) ==
    LET sel == selected_rules(a, flags)
        pfx == SelectSeq(sel, LAMBDA r : r.dir = "PFX")
        sfx == SelectSeq(sel, LAMBDA r : r.dir = "SFX")
        single == [k \in 1..Len(sel) |-> apply_rule(sel[k], root)]
        both == flatten([i \in 1..Len(pfx) |->
                    [j \in 1..Len(sfx) |-> pfx[i].add \o root \o sfx[j].add]])
    IN <<root>> \o both \o single

\* Affix::create_affixed_words(root, flags): the root first, then one
\* spelling per selected rule, then every selected prefix compounded with
\* every selected suffix.
create_affixed_words(a, root, flags) ==
    LET sel == selected_rules(a, flags)
        pfx == SelectSeq(sel, LAMBDA r : r.dir = "PFX")
        sfx == SelectSeq(sel, LAMBDA r : r.dir = "SFX")
        single == [k \in 1..Len(sel) |-> apply_rule(sel[k], root)]
        both == flatten([i \in 1..Len(pfx) |->
                    [j \in 1..Len(sfx) |-> pfx[i].add \o root \o sfx[j].add]])
    IN <<root>> \o single \o both

-----------------------------------------------------------------------------
(* Inputs: the documents handed to the loaders *)

\* Lines of a wordlist document.
Wxxx    == <<"x", "x", "x">>
WxxxAN  == <<"x", "x", "x", "/", "A", "N">>
WxxxyNs == <<"x", "x", "x", "y", "/", "N", "!">>
WordLines == {Wxxx, WxxxAN, WxxxyNs}

\* Lines of a personal dictionary document.
Pnew      == <<"n", "e", "w">>
PstarXxx  == <<"*", "x", "x", "x">>
PnewXxx   == <<"n", "e", "w", "/", "x", "x", "x">>
PnewSXxx  == <<"n", "e", "w", "/", "*", "x", "x", "x">>
PersonalLines == {Pnew, PstarXxx, PnewXxx, PnewSXxx}

\* The count header of a wordlist document.
Header == <<"2">>

\* Sequences of distinct elements of S, of length at most n.
SeqsUpTo(S, n) ==
    UNION {{f \in [1..k -> S] : \A i, j \in 1..k : i # j => f[i] # f[j]} :
              k \in 0..n}

\* A document: its lines, each followed by a line feed when `last` is set,
\* otherwise separated by line feeds.
RECURSIVE join_lines(_, _)
join_lines(ls, last) ==
    IF ls = <<>> THEN <<>>
    ELSE IF Len(ls) = 1 /\ ~last THEN ls[1]
    ELSE ls[1] \o <<"\n">> \o join_lines(Tail(ls), last)

\* Wordlist documents: a header line and up to MaxLines different entries,
\* with or without a final line feed; and the empty document.
WordlistDocs ==
    {<<>>} \cup {join_lines(<<Header>> \o ls, last) :
                    ls \in SeqsUpTo(WordLines, MaxLines), last \in BOOLEAN}

\* Personal dictionary documents: up to MaxLines different entries.
PersonalDocs == {join_lines(ls, FALSE) : ls \in SeqsUpTo(PersonalLines, MaxLines)}

\* Words handed to check().
Wrexxxen == <<"r", "e", "x", "x", "x", "e", "n">>
Wxxxy    == <<"x", "x", "x", "y">>
CheckWords == {Wxxx, Wrexxxen, Wxxxy, Pnew}

-----------------------------------------------------------------------------
(* The Dictionary *)

\* What the last call returned: op the method, arg its argument, val "Ok",
\* "Err", "true", "false", "panic" or "" (no value), items the vector
\* wordlist_items() returned.
Ret(op, arg, val, items) == [op |-> op, arg |-> arg, val |-> val, items |-> items]

\* Dictionary::new()
Init ==
    /\ affix = AffixNew
    /\ wordlist = {}
    /\ wordlist_nosuggest = {}
    /\ wordlist_forbidden = {}
    /\ raw_wordlist = <<>>
    /\ raw_wordlist_personal = <<>>
    /\ compiled = FALSE
    /\ ret = Ret("new", <<>>, "", <<>>)
    /\ lifecycle = "fresh"
    /\ in_a_row = 0

\* The history of a loader call of the Dictionary.
loader_history ==
    /\ lifecycle' = IF lifecycle \in {"compiled", "stale"} THEN "stale" ELSE "raw"
    /\ in_a_row' = 0

\* A load_affix_from_str that parses first and marks the dictionary dirty
\* only when the parse succeeded.
load_affix_dirty_on_success ==
    \E s \in AffixDocs :
        /\ compiled' = IF affix_load_ok(s) THEN FALSE ELSE compiled
        /\ affix' = affix_load_from_str(affix, s)
        /\ ret' = Ret("load_affix_from_str", s,
                      IF affix_load_ok(s) THEN "Ok" ELSE "Err", <<>>)
        /\ loader_history
        /\ UNCHANGED <<wordlist, wordlist_nosuggest, wordlist_forbidden,
                       raw_wordlist, raw_wordlist_personal>>

\* Dictionary::load_affix_from_str(s)
load_affix_from_str ==
    \E s \in AffixDocs :
        /\ compiled' = FALSE
        /\ affix' = affix_load_from_str(affix, s)
        /\ ret' = Ret("load_affix_from_str", s,
                      IF affix_load_ok(s) THEN "Ok" ELSE "Err", <<>>)
        /\ loader_history
        /\ UNCHANGED <<wordlist, wordlist_nosuggest, wordlist_forbidden,
                       raw_wordlist, raw_wordlist_personal>>

\* dic.affix.load_from_str(s): the affix field is public, and the example of
\* check() loads the affix configuration through it.
affix_load_direct ==
    \E s \in AffixDocs :
        /\ affix' = affix_load_from_str(affix, s)
        /\ ret' = Ret("affix.load_from_str", s,
                      IF affix_load_ok(s) THEN "Ok" ELSE "Err", <<>>)
        /\ in_a_row' = 0
        /\ UNCHANGED <<wordlist, wordlist_nosuggest, wordlist_forbidden,
                       raw_wordlist, raw_wordlist_personal, compiled, lifecycle>>

\* A load_dictionar_from_str that keeps the count line as an entry.
load_dictionar_keeps_header ==
    \E s \in WordlistDocs :
        /\ compiled' = FALSE
        /\ raw_wordlist' = lines(s)
        /\ ret' = Ret("load_dictionar_from_str", s, "", <<>>)
        /\ loader_history
        /\ UNCHANGED <<affix, wordlist, wordlist_nosuggest, wordlist_forbidden,
                       raw_wordlist_personal>>

\* Dictionary::load_dictionar_from_str(s): the first line is dropped.
load_dictionar_from_str ==
    \E s \in WordlistDocs :
        /\ compiled' = FALSE
        /\ raw_wordlist' = (LET ls == lines(s)
                            IN IF ls = <<>> THEN <<>> ELSE Tail(ls))
        /\ ret' = Ret("load_dictionar_from_str", s, "", <<>>)
        /\ loader_history
        /\ UNCHANGED <<affix, wordlist, wordlist_nosuggest, wordlist_forbidden,
                       raw_wordlist_personal>>

\* A load_personal_dict_from_str that forgets to reset the compiled flag.
load_personal_keeps_compiled ==
    \E s \in PersonalDocs :
        /\ raw_wordlist_personal' = lines(s)
        /\ ret' = Ret("load_personal_dict_from_str", s, "", <<>>)
        /\ loader_history
        /\ UNCHANGED <<affix, wordlist, wordlist_nosuggest, wordlist_forbidden,
                       raw_wordlist, compiled>>

\* Dictionary::load_personal_dict_from_str(s)
load_personal_dict_from_str ==
    \E s \in PersonalDocs :
        /\ compiled' = FALSE
        /\ raw_wordlist_personal' = lines(s)
        /\ ret' = Ret("load_personal_dict_from_str", s, "", <<>>)
        /\ loader_history
        /\ UNCHANGED <<affix, wordlist, wordlist_nosuggest, wordlist_forbidden,
                       raw_wordlist>>

\* compile(), first loop, one personal entry: an entry "word/otherword"
\* needs a raw wordlist line that starts with "otherword/", leading '*'
\* trimmed; an entry without '/' needs nothing.
root_found(word, rw) ==
    LET sp == split(word, "/")
    IN IF has_second(sp)
       THEN LET tmp == sp[2] \o <<"/">>
                filtval == trim_start_matches(tmp, "*")
            IN \E i \in 1..Len(rw) : starts_with(rw[i], filtval)
       ELSE TRUE

\* An expansion that does not look for the nosuggest flag: every spelling
\* goes to the general word list.
expand_entry_no_routing(a, word, acc) ==
    LET sp == split(word, "/")
        rootword == sp[1]
    IN IF has_second(sp)
       THEN <<acc[1] \cup Range(create_affixed_words(a, rootword, sp[2])), acc[2]>>
       ELSE <<acc[1] \cup {rootword}, acc[2]>>

\* compile(), second loop, one raw wordlist line added to the sets
\* acc = <<wordlist, wordlist_nosuggest>>.
expand_entry(a, word, acc) ==
    LET sp == split(word, "/")
        rootword == sp[1]
    IN IF has_second(sp)
       THEN LET rule_keys == sp[2]
                words == Range(create_affixed_words(a, rootword, rule_keys))
            IN IF contains(rule_keys, a.nosuggest_flag)
               THEN <<acc[1], acc[2] \cup words>>
               ELSE <<acc[1] \cup words, acc[2]>>
       ELSE <<acc[1] \cup {rootword}, acc[2]>>

\* compile(), second loop: every raw wordlist line in turn.
RECURSIVE expand_all(_, _, _)
expand_all(a, rw, acc) ==
    IF rw = <<>> THEN acc
    ELSE expand_all(a, Tail(rw), expand_entry(a, Head(rw), acc))

\* A compile() that expands the raw wordlist before it resolves the
\* personal dictionary, so that a failure leaves the expansion behind.
compile_expand_first ==
    LET acc == expand_all(affix, raw_wordlist, <<wordlist, wordlist_nosuggest>>)
        ok == \A i \in 1..Len(raw_wordlist_personal) :
                  root_found(raw_wordlist_personal[i], raw_wordlist)
    IN /\ wordlist' = acc[1]
       /\ wordlist_nosuggest' = acc[2]
       /\ compiled' = IF ok THEN TRUE ELSE compiled
       /\ ret' = Ret("compile", <<>>, IF ok THEN "Ok" ELSE "Err", <<>>)
       /\ lifecycle' = IF ok THEN "compiled" ELSE lifecycle
       /\ in_a_row' = IF ~ok THEN in_a_row
                       ELSE IF in_a_row < 2 THEN in_a_row + 1 ELSE 2
       /\ UNCHANGED <<affix, wordlist_forbidden, raw_wordlist,
                      raw_wordlist_personal>>

\* A compile() that builds the sets anew and empties the raw lists, as the
\* comment on the raw fields announces ("Will be emptied upon compile").
compile_draining ==
    IF \E i \in 1..Len(raw_wordlist_personal) :
           ~root_found(raw_wordlist_personal[i], raw_wordlist)
    THEN /\ ret' = Ret("compile", <<>>, "Err", <<>>)
         /\ UNCHANGED <<affix, wordlist, wordlist_nosuggest, wordlist_forbidden,
                        raw_wordlist, raw_wordlist_personal, compiled,
                        lifecycle, in_a_row>>
    ELSE LET acc == expand_all(affix, raw_wordlist, <<{}, {}>>)
         IN /\ wordlist' = acc[1]
            /\ wordlist_nosuggest' = acc[2]
            /\ raw_wordlist' = <<>>
            /\ raw_wordlist_personal' = <<>>
            /\ compiled' = TRUE
            /\ ret' = Ret("compile", <<>>, "Ok", <<>>)
            /\ lifecycle' = "compiled"
            /\ in_a_row' = IF in_a_row < 2 THEN in_a_row + 1 ELSE 2
            /\ UNCHANGED <<affix, wordlist_forbidden>>

\* Dictionary::compile()
compile ==
    IF \E i \in 1..Len(raw_wordlist_personal) :
           ~root_found(raw_wordlist_personal[i], raw_wordlist)
    THEN /\ ret' = Ret("compile", <<>>, "Err", <<>>)
         /\ UNCHANGED <<affix, wordlist, wordlist_nosuggest, wordlist_forbidden,
                        raw_wordlist, raw_wordlist_personal, compiled,
                        lifecycle, in_a_row>>
    ELSE LET acc == expand_all(affix, raw_wordlist,
                               <<wordlist, wordlist_nosuggest>>)
         IN /\ wordlist' = acc[1]
            /\ wordlist_nosuggest' = acc[2]
            /\ compiled' = TRUE
            /\ ret' = Ret("compile", <<>>, "Ok", <<>>)
            /\ lifecycle' = "compiled"
            /\ in_a_row' = IF in_a_row < 2 THEN in_a_row + 1 ELSE 2
            /\ UNCHANGED <<affix, wordlist_forbidden, raw_wordlist,
                           raw_wordlist_personal>>

\* A break_if_not_compiled() whose assertion never fails.
break_never(c) == FALSE

\* Dictionary::break_if_not_compiled(): TRUE when the assertion fails.
break_if_not_compiled(c) == ~(c = TRUE)

\* A check_no_break() that looks only in the general word list.
check_wordlist_only(wl, ns, fb, s) == (s \notin fb) /\ (s \in wl)

\* Dictionary::check_no_break(s)
check_no_break(wl, ns, fb, s) == (s \notin fb) /\ (s \in wl \/ s \in ns)

\* A check() that remembers an accepted word in the general word list.
check_caching ==
    \E s \in CheckWords :
        LET hit == ~break_if_not_compiled(compiled)
                   /\ check_no_break(wordlist, wordlist_nosuggest,
                                     wordlist_forbidden, s)
        IN /\ ret' = Ret("check", s,
                         IF break_if_not_compiled(compiled) THEN "panic"
                         ELSE IF hit THEN "true" ELSE "false",
                         <<>>)
           /\ wordlist' = IF hit THEN wordlist \cup {s} ELSE wordlist
           /\ UNCHANGED <<affix, wordlist_nosuggest, wordlist_forbidden,
                          raw_wordlist, raw_wordlist_personal, compiled,
                          lifecycle, in_a_row>>

\* Dictionary::check(s)
check ==
    \E s \in CheckWords :
        /\ ret' = Ret("check", s,
                      IF break_if_not_compiled(compiled) THEN "panic"
                      ELSE IF check_no_break(wordlist, wordlist_nosuggest,
                                             wordlist_forbidden, s)
                           THEN "true" ELSE "false",
                      <<>>)
        /\ UNCHANGED <<affix, wordlist, wordlist_nosuggest, wordlist_forbidden,
                       raw_wordlist, raw_wordlist_personal, compiled,
                       lifecycle, in_a_row>>

\* Byte value of a character, the order of str's Ord.
byte(c) ==
    CASE c = "\n" -> 10 [] c = "\r" -> 13 [] c = "!" -> 33 [] c = "*" -> 42
      [] c = "/" -> 47 [] c = "2" -> 50 [] c = "A" -> 65 [] c = "N" -> 78
      [] c = "e" -> 101 [] c = "n" -> 110 [] c = "r" -> 114 [] c = "w" -> 119
      [] c = "x" -> 120 [] c = "y" -> 121

\* a < b in the lexicographic byte order of str.
RECURSIVE str_lt(_, _)
str_lt(a, b) ==
    IF b = <<>> THEN FALSE
    ELSE IF a = <<>> THEN TRUE
    ELSE IF a[1] = b[1] THEN str_lt(Tail(a), Tail(b))
    ELSE byte(a[1]) < byte(b[1])

\* Vec::sort() of the elements of set S.
RECURSIVE sorted(_)
sorted(S) ==
    IF S = {} THEN <<>>
    ELSE LET m == CHOOSE x \in S : \A y \in S \ {x} : str_lt(x, y)
         IN <<m>> \o sorted(S \ {m})

\* A wordlist_items() that lists every accepted word, the nosuggest ones
\* included.
wordlist_items_all_accepted ==
    /\ ret' = IF break_if_not_compiled(compiled)
              THEN Ret("wordlist_items", <<>>, "panic", <<>>)
              ELSE Ret("wordlist_items", <<>>, "Ok",
                       sorted(wordlist \cup wordlist_nosuggest))
    /\ UNCHANGED <<affix, wordlist, wordlist_nosuggest, wordlist_forbidden,
                   raw_wordlist, raw_wordlist_personal, compiled,
                   lifecycle, in_a_row>>

\* Dictionary::wordlist_items()
wordlist_items ==
    /\ ret' = IF break_if_not_compiled(compiled)
              THEN Ret("wordlist_items", <<>>, "panic", <<>>)
              ELSE Ret("wordlist_items", <<>>, "Ok", sorted(wordlist))
    /\ UNCHANGED <<affix, wordlist, wordlist_nosuggest, wordlist_forbidden,
                   raw_wordlist, raw_wordlist_personal, compiled,
                   lifecycle, in_a_row>>

\* generate_wordlist_from_afx(rootword, tokens, affix): the private helper
\* of dictionary.rs, which no method calls; it walks the rules and returns
\* an empty vector.
generate_wordlist_from_afx(rootword, tokens, a) == <<>>

\* Longest flagstring handed to create_affixed_words.
MaxFlags == 2

\* Flag tokens, flagstrings and roots handed to create_affixed_words.
FlagTokens == {"A", "N", "!"}
FlagStrings == UNION {[1..k -> FlagTokens] : k \in 0..MaxFlags}
Roots == {<<>>, Wxxx, Wxxxy, Pnew, Wrexxxen}

\* dic.affix.create_affixed_words(root, flags), as the integration test and
\* compile() call it.
affix_create_affixed_words ==
    \E root \in Roots, flags \in FlagStrings :
        /\ ret' = Ret("create_affixed_words", <<root, flags>>, "Ok",
                      create_affixed_words(affix, root, flags))
        /\ UNCHANGED <<affix, wordlist, wordlist_nosuggest, wordlist_forbidden,
                       raw_wordlist, raw_wordlist_personal, compiled,
                       lifecycle, in_a_row>>

Next ==
    \/ load_affix_from_str
    \/ affix_load_direct
    \/ load_dictionar_from_str
    \/ load_personal_dict_from_str
    \/ compile
    \/ check
    \/ wordlist_items

Spec == Init /\ [][Next]_vars

\* The Affix alone: a configuration is loaded and words are expanded.
NextAffix ==
    \/ affix_load_direct
    \/ affix_create_affixed_words

SpecAffix == Init /\ [][NextAffix]_vars

-----------------------------------------------------------------------------
(* The entries as the specification reads them *)

\* A raw wordlist entry "root[/flagstring]".
root_of(line) == split(line, "/")[1]
has_flags(line) == has_second(split(line, "/"))
flags_of(line) == split(line, "/")[2]

\* A personal dictionary entry "[*]word[/otherword]".
is_forbidden(e) == starts_with(e, <<"*">>)
has_ref(e) == has_second(split(e, "/"))
ref_of(e) == split(e, "/")[2]
word_of(e) == LET w == split(e, "/")[1] IN IF is_forbidden(e) THEN Tail(w) ELSE w

\* Some raw wordlist entry has exactly the root `other`.
exact_root_exists(other, rw) == \E i \in 1..Len(rw) : root_of(rw[i]) = other

\* The spellings a personal dictionary contributes to the accept sets: the
\* word of every entry that is not forbidden, expanded with the flagstring
\* of the root it refers to.
personal_spellings(a, pw, rw) ==
    UNION {IF is_forbidden(pw[i]) THEN {}
           ELSE {word_of(pw[i])} \cup
                (IF has_ref(pw[i])
                 THEN UNION {Range(create_affixed_words(a, word_of(pw[i]),
                                                         flags_of(rw[j]))) :
                               j \in {k \in 1..Len(rw) :
                                        /\ has_flags(rw[k])
                                        /\ root_of(rw[k]) = ref_of(pw[i])}}
                 ELSE {}) : i \in 1..Len(pw)}

\* The spellings of the raw wordlist, expanded from empty sets.
wordlist_spellings(a, rw) ==
    LET acc == expand_all(a, rw, <<{}, {}>>) IN acc[1] \cup acc[2]

compile_ok == ret.op = "compile" /\ ret.val = "Ok"
accepts(s) == check_no_break(wordlist, wordlist_nosuggest, wordlist_forbidden, s)

-----------------------------------------------------------------------------
(* Claims *)

\* C1: in a compiled dictionary check(w) returns true if and only if w is
\* not in wordlist_forbidden and w is in wordlist or in wordlist_nosuggest.
C1_CheckIsMembership ==
    (ret.op = "check" /\ compiled) =>
        /\ ret.val \in {"true", "false"}
        /\ ret.val = "true" <=>
              /\ ret.arg \notin wordlist_forbidden
              /\ ret.arg \in wordlist \cup wordlist_nosuggest

\* check() accepted a word that only the nosuggest list holds.
C1_Witness ==
    /\ compiled /\ ret.op = "check" /\ ret.val = "true"
    /\ ret.arg \in wordlist_nosuggest /\ ret.arg \notin wordlist

\* C2: a loader call after a successful compile() makes the dictionary
\* dirty again: until the next successful compile() the compiled flag is
\* down and every check() panics.
C2_LoaderInvalidates ==
    lifecycle = "stale" =>
        /\ ~compiled
        /\ ret.op = "check" => ret.val = "panic"

\* check() panicked on a dictionary that had been compiled, with words in
\* it, and was loaded into afterwards.
C2_Witness ==
    /\ lifecycle = "stale" /\ wordlist # {}
    /\ ret.op = "check" /\ ret.val = "panic"

\* C3 (as claimed): after a successful compile() no spelling is in the accept
\* sets unless the raw inputs loaded at that moment yield it.
C3_NoStaleSpelling ==
    compile_ok =>
        (wordlist \cup wordlist_nosuggest) \subseteq
            (wordlist_spellings(affix, raw_wordlist) \cup
             personal_spellings(affix, raw_wordlist_personal, raw_wordlist))

\* C4: check() and wordlist_items() panic on a fresh dictionary and whenever
\* no successful compile() has happened since the last loader call.
C4_QueriesNeedCompile ==
    (lifecycle # "compiled" /\ ret.op \in {"check", "wordlist_items"}) =>
        ret.val = "panic"

\* wordlist_items() panicked on a dictionary that was loaded, never compiled.
C4_Witness ==
    /\ lifecycle = "raw" /\ raw_wordlist # <<>>
    /\ ret.op = "wordlist_items" /\ ret.val = "panic"

\* C5: a compile() that fails returns the error, leaves the three sets as
\* they were and the dictionary not compiled.
C5_FailedCompileChangesNothing ==
    [][(ret'.op = "compile" /\ ret'.val = "Err") =>
          /\ sets' = sets
          /\ compiled' = compiled
          /\ ~compiled']_vars

\* compile() failed, on an entry whose root no raw wordlist entry has, in a
\* dictionary that holds words of an earlier compile().
C5_Witness ==
    /\ ret.op = "compile" /\ ret.val = "Err"
    /\ lifecycle = "stale" /\ wordlist # {}
    /\ \E i \in 1..Len(raw_wordlist_personal) :
          /\ has_ref(raw_wordlist_personal[i])
          /\ ~exact_root_exists(ref_of(raw_wordlist_personal[i]), raw_wordlist)

\* C6: a compile() that follows a successful compile(), with no call in
\* between that changes the dictionary, succeeds and leaves the three sets,
\* hence every query result, as the first left them.
C6_CompileIdempotent ==
    [][(in_a_row >= 1 /\ ret'.op = "compile") =>
          /\ ret'.val = "Ok"
          /\ compiled'
          /\ sets' = sets
          /\ sorted(wordlist') = sorted(wordlist)]_vars

\* A second compile() in a row, on a dictionary with words in both accept
\* sets.
C6_Witness ==
    /\ in_a_row = 2 /\ ret.op = "compile"
    /\ wordlist # {} /\ wordlist_nosuggest # {}

\* C7 (as claimed): after a successful compile() the word of every forbidden
\* personal entry is in wordlist_forbidden and check() rejects it.
C7_ForbiddenRejected ==
    compile_ok =>
        \A i \in 1..Len(raw_wordlist_personal) :
            is_forbidden(raw_wordlist_personal[i]) =>
                /\ word_of(raw_wordlist_personal[i]) \in wordlist_forbidden
                /\ ~accepts(word_of(raw_wordlist_personal[i]))

\* C8 (as claimed): with the personal entry "*xxx" compiled and no raw
\* wordlist entry of root "xxx", check("xxx") returns false.
C8_StarWordRejected ==
    (/\ lifecycle = "compiled" /\ ret.op = "check" /\ ret.arg = Wxxx
     /\ \E i \in 1..Len(raw_wordlist_personal) : raw_wordlist_personal[i] = PstarXxx
     /\ ~exact_root_exists(Wxxx, raw_wordlist)) =>
        ret.val = "false"

\* C9 (as claimed): compile() succeeds exactly when every personal entry
\* "word/otherword" finds a raw wordlist entry whose root is otherword, with
\* or without a flagstring.
C9_ExactRootResolves ==
    ret.op = "compile" =>
        (ret.val = "Ok" <=>
            \A i \in 1..Len(raw_wordlist_personal) :
                has_ref(raw_wordlist_personal[i]) =>
                    exact_root_exists(ref_of(raw_wordlist_personal[i]),
                                      raw_wordlist))

\* C10 (as claimed): after a successful compile() the word of every personal
\* entry without '*' and without '/' is in wordlist, and check() accepts it
\* unless it is forbidden.
C10_PlainPersonalAccepted ==
    compile_ok =>
        \A i \in 1..Len(raw_wordlist_personal) :
            (~is_forbidden(raw_wordlist_personal[i])
             /\ ~has_ref(raw_wordlist_personal[i])) =>
                /\ raw_wordlist_personal[i] \in wordlist
                /\ raw_wordlist_personal[i] \notin wordlist_forbidden
                      => accepts(raw_wordlist_personal[i])

\* C11 (as claimed): with the personal entry "new/xxx" and the raw wordlist
\* entry "xxx/AN" compiled, check() accepts "new", the first of the four
\* spellings of "new" under the flags AN.
C11_ReferencedFlagsExpand ==
    (/\ lifecycle = "compiled" /\ ret.op = "check" /\ ret.arg = Pnew
     /\ \E i \in 1..Len(raw_wordlist_personal) : raw_wordlist_personal[i] = PnewXxx
     /\ \E i \in 1..Len(raw_wordlist) : raw_wordlist[i] = WxxxAN) =>
        ret.val = "true"

\* The flagstring of a raw wordlist entry carries the nosuggest flag token.
carries_nosuggest(a, line) ==
    /\ has_flags(line)
    /\ \E k \in 1..Len(flags_of(line)) : <<flags_of(line)[k]>> = a.nosuggest_flag

\* What the raw wordlist contributes to wordlist_nosuggest (to_ns) or to
\* wordlist (~to_ns): the spellings of every flagged entry, routed by the
\* nosuggest flag, and the root of every entry without flagstring.
routed(a, rw, to_ns) ==
    UNION {IF has_flags(rw[i])
           THEN IF carries_nosuggest(a, rw[i]) = to_ns
                THEN Range(create_affixed_words(a, root_of(rw[i]), flags_of(rw[i])))
                ELSE {}
           ELSE IF to_ns THEN {} ELSE {root_of(rw[i])} : i \in 1..Len(rw)}

\* C12: a successful compile() adds to wordlist_nosuggest exactly the
\* spellings of the raw entries whose flagstring carries the nosuggest flag,
\* and to wordlist exactly the spellings of the other flagged entries and the
\* roots of the entries without flagstring.
C12_NosuggestRouting ==
    [][(ret'.op = "compile" /\ ret'.val = "Ok") =>
          /\ wordlist' = wordlist \cup routed(affix, raw_wordlist, FALSE)
          /\ wordlist_nosuggest' =
                wordlist_nosuggest \cup routed(affix, raw_wordlist, TRUE)]_vars

\* A compile() of "xxx/AN" and "xxxy/N!" under the rules of short.aff: the
\* four spellings of xxx are suggestable, the two of xxxy are not.
C12_Witness ==
    /\ compile_ok
    /\ raw_wordlist = <<WxxxAN, WxxxyNs>>
    /\ Wrexxxen \in wordlist /\ Wrexxxen \notin wordlist_nosuggest
    /\ (Wxxxy \o <<"e", "n">>) \in wordlist_nosuggest
    /\ Wxxxy \notin wordlist

\* The spelling the rules of short.aff derive from a root under one flag.
short_aff_spelling(flag, root) ==
    IF flag = "A" THEN <<"r", "e">> \o root ELSE root \o <<"e", "n">>

short_aff_loaded == affix.affix_rules = <<PfxA, SfxN>>

\* C13: create_affixed_words returns the root first; for the empty flagstring
\* nothing else; under the rules of short.aff the single spellings follow in
\* the order of the flags, and "xxx" gives ["xxx", "rexxx"] for "A",
\* ["xxx", "xxxen"] for "N" and ["xxx", "rexxx", "xxxen", "rexxxen"] for "AN".
C13_AffixedWordsOrder ==
    ret.op = "create_affixed_words" =>
        LET root == ret.arg[1]
            flags == ret.arg[2]
            ruled == SelectSeq(flags, LAMBDA f : f \in {"A", "N"})
        IN /\ Len(ret.items) >= 1 /\ ret.items[1] = root
           /\ flags = <<>> => ret.items = <<root>>
           /\ short_aff_loaded =>
                 /\ Len(ret.items) >= 1 + Len(ruled)
                 /\ \A k \in 1..Len(ruled) :
                       ret.items[1 + k] = short_aff_spelling(ruled[k], root)
                 /\ (root = Wxxx /\ flags = <<"A">>) =>
                       ret.items = <<Wxxx, <<"r", "e", "x", "x", "x">>>>
                 /\ (root = Wxxx /\ flags = <<"N">>) =>
                       ret.items = <<Wxxx, <<"x", "x", "x", "e", "n">>>>
                 /\ (root = Wxxx /\ flags = <<"A", "N">>) =>
                       ret.items = <<Wxxx, <<"r", "e", "x", "x", "x">>,
                                     <<"x", "x", "x", "e", "n">>, Wrexxxen>>

\* create_affixed_words("xxx", "AN") returned its four spellings.
C13_Witness ==
    /\ ret.op = "create_affixed_words" /\ short_aff_loaded
    /\ ret.arg = <<Wxxx, <<"A", "N">>>>
    /\ Len(ret.items) = 4

\* C14: on a compiled dictionary wordlist_items() returns the elements of
\* wordlist, nothing else, each once, in ascending byte order.
C14_ItemsSortedWordlist ==
    (ret.op = "wordlist_items" /\ compiled) =>
        /\ ret.val = "Ok"
        /\ Range(ret.items) = wordlist
        /\ Len(ret.items) = Cardinality(wordlist)
        /\ \A i, j \in 1..Len(ret.items) :
              i < j => str_lt(ret.items[i], ret.items[j])

\* wordlist_items() listed the four spellings of "xxx", with "rexxx" before
\* "rexxxen" before "xxx", while the nosuggest list held other words.
C14_Witness ==
    /\ ret.op = "wordlist_items" /\ compiled
    /\ Len(ret.items) = 4
    /\ ret.items[2] = Wrexxxen /\ ret.items[3] = Wxxx
    /\ wordlist_nosuggest # {}

\* C15: check() and wordlist_items() change nothing of the dictionary: the
\* three sets, the raw lists, the compiled flag and the affix configuration
\* are after the call what they were before it.
C15_QueriesChangeNothing ==
    [][ret'.op \in {"check", "wordlist_items"} =>
          /\ sets' = sets
          /\ raw_wordlist' = raw_wordlist
          /\ raw_wordlist_personal' = raw_wordlist_personal
          /\ compiled' = compiled
          /\ affix' = affix]_vars

\* check() accepted a word that only the nosuggest list holds, and the word
\* is still not in the general word list.
C15_Witness ==
    /\ ret.op = "check" /\ ret.val = "true"
    /\ ret.arg = Wxxxy /\ Wxxxy \notin wordlist
    /\ raw_wordlist # <<>> /\ raw_wordlist_personal # <<>>

is_header_then(doc, ls) ==
    \/ doc = <<>> /\ ls = <<>>
    \/ \E last \in BOOLEAN : doc = join_lines(<<Header>> \o ls, last)

\* C17: load_dictionar_from_str makes the raw wordlist the lines of its input
\* after the first and leaves the three sets alone; the count line is never
\* a raw entry nor an accepted spelling.
C17_LoaderDropsHeader ==
    [][/\ ret'.op = "load_dictionar_from_str" =>
             /\ is_header_then(ret'.arg, raw_wordlist')
             /\ sets' = sets
       /\ \A i \in 1..Len(raw_wordlist') : raw_wordlist'[i] # Header
       /\ Header \notin (wordlist' \cup wordlist_nosuggest')]_vars

\* A wordlist of two entries was loaded into a dictionary that holds the
\* words of an earlier compile().
C17_Witness ==
    /\ ret.op = "load_dictionar_from_str"
    /\ Len(raw_wordlist) = 2
    /\ wordlist # {} /\ lifecycle = "stale"

\* C18: load_affix_from_str lowers the compiled flag whether it succeeds or
\* fails; the flag stays down until a compile() succeeds, and while it is
\* down check() and wordlist_items() panic.
C18_FailedAffixLoadInvalidates ==
    [][/\ ret'.op = "load_affix_from_str" => ~compiled'
       /\ (~compiled /\ ~(ret'.op = "compile" /\ ret'.val = "Ok")) => ~compiled'
       /\ (~compiled /\ ret'.op \in {"check", "wordlist_items"}) =>
             ret'.val = "panic"]_vars

\* load_affix_from_str failed on a dictionary that had been compiled with the
\* rules of short.aff: the rules are still there, the flag is down.
C18_Witness ==
    /\ ret.op = "load_affix_from_str" /\ ret.val = "Err"
    /\ lifecycle = "stale" /\ ~compiled
    /\ short_aff_loaded /\ Wrexxxen \in wordlist

====
